---------------------------- MODULE Spec2Model ----------------------------
(***************************************************************************)
(* Model of loopholelabs/s3: the configuration (pkg/config) and the three  *)
(* lineages of the storage client wrapper (s3.go and its two successors).  *)
(* Strings are sequences of characters, so that emptiness, concatenation   *)
(* and prefixes are computed rather than assumed.                          *)
(***************************************************************************)
EXTENDS Integers, Sequences, FiniteSets, TLC

VARIABLES
    cfgKind,         \* which Config type: "disable" (config.go:39) or "plain" (config.go:144)
    cfg,             \* the Config value owned by the caller
    pristine,        \* TRUE while cfg is exactly what New() returned
    validateResult,  \* outcome of the last Validate call, with the Config it saw
    genOptions,      \* outcome of the last GenerateOptions call
    variant,         \* which client source: "S3", "BucketClient", "PrefixClient"
    options,         \* the *Options handed to the client constructor
    newResult,       \* what the constructor returned: [client, err]
    minioNewCalls,   \* number of backend sessions constructed (minio.New)
    ctxCreated,      \* number of lifecycle contexts derived (context.WithCancel)
    cancelled,       \* the lifecycle context's Done signal has fired
    wg,              \* the sync.WaitGroup counter
    closePc,         \* position of the goroutine running Close
    closeTrace,      \* steps the current / last Close call has executed
    closeResult,     \* what the last Close call returned
    closeCount,      \* number of Close calls that have returned
    call             \* the caller goroutine: its operation in flight or returned

cfgVars == <<cfgKind, cfg, pristine, validateResult, genOptions>>
clientVars == <<variant, options, newResult, minioNewCalls, ctxCreated,
                cancelled, wg, closePc, closeTrace, closeResult, closeCount,
                call>>
vars == <<cfgKind, cfg, pristine, validateResult, genOptions,
          variant, options, newResult, minioNewCalls, ctxCreated,
          cancelled, wg, closePc, closeTrace, closeResult, closeCount,
          call>>

-----------------------------------------------------------------------------
(* Values *)

Empty == <<>>

Nil == "nil"

None == "none"

\* config.go:26-30 and config.go:132-136
ErrEndpointRequired == "endpoint is required"

ErrRegionRequired == "region is required"

ErrBucketRequired == "bucket is required"

ErrAccessKeyRequired == "access key is required"

ErrSecretKeyRequired == "secret key is required"

\* config.go:34-36 and config.go:140-141
DefaultDisabled == FALSE

DefaultSecure == TRUE

DefaultRegion == <<"a", "u", "t", "o">>

\* values a caller may store in a string field of a Config
FieldVals == {Empty, <<"x">>, DefaultRegion}

LogNames == {<<"s", "3">>}

CfgKinds == {"disable", "plain"}

-----------------------------------------------------------------------------
(* pkg/config *)

\* the zero value of the Config struct of each kind
ZeroConfig(kind) ==
    IF kind = "disable"
    THEN [Disabled |-> FALSE, Endpoint |-> Empty, Secure |-> FALSE,
          Region |-> Empty, Bucket |-> Empty, AccessKey |-> Empty,
          SecretKey |-> Empty]
    ELSE [Endpoint |-> Empty, Secure |-> FALSE, Region |-> Empty,
          Bucket |-> Empty, AccessKey |-> Empty, SecretKey |-> Empty]

\* a constructor that also defaults the endpoint
ConfigNew_DefaultEndpoint(kind) ==
    IF kind = "disable"
    THEN [ZeroConfig(kind) EXCEPT !.Disabled = DefaultDisabled,
                                  !.Secure = DefaultSecure,
                                  !.Region = DefaultRegion,
                                  !.Endpoint = <<"x">>]
    ELSE [ZeroConfig(kind) EXCEPT !.Secure = DefaultSecure,
                                  !.Region = DefaultRegion,
                                  !.Endpoint = <<"x">>]

\* config.New of either kind
ConfigNew(kind) ==
    IF kind = "disable"
    THEN [ZeroConfig(kind) EXCEPT !.Disabled = DefaultDisabled,
                                  !.Secure = DefaultSecure,
                                  !.Region = DefaultRegion]
    ELSE [ZeroConfig(kind) EXCEPT !.Secure = DefaultSecure,
                                  !.Region = DefaultRegion]

\* a Validate that checks the bucket before the region
ValidatePlain_BucketFirst(c) ==
    IF c.Endpoint = Empty THEN ErrEndpointRequired
    ELSE IF c.Bucket = Empty THEN ErrBucketRequired
    ELSE IF c.Region = Empty THEN ErrRegionRequired
    ELSE IF c.AccessKey = Empty THEN ErrAccessKeyRequired
    ELSE IF c.SecretKey = Empty THEN ErrSecretKeyRequired
    ELSE Nil

\* Config.Validate of the kind without a Disabled field
ValidatePlain(c) ==
    IF c.Endpoint = Empty THEN ErrEndpointRequired
    ELSE IF c.Region = Empty THEN ErrRegionRequired
    ELSE IF c.Bucket = Empty THEN ErrBucketRequired
    ELSE IF c.AccessKey = Empty THEN ErrAccessKeyRequired
    ELSE IF c.SecretKey = Empty THEN ErrSecretKeyRequired
    ELSE Nil

\* a Validate that forgets the Disabled escape hatch
Validate_IgnoreDisabled(c) ==
    IF c.Endpoint = Empty THEN ErrEndpointRequired
    ELSE IF c.Region = Empty THEN ErrRegionRequired
    ELSE IF c.Bucket = Empty THEN ErrBucketRequired
    ELSE IF c.AccessKey = Empty THEN ErrAccessKeyRequired
    ELSE IF c.SecretKey = Empty THEN ErrSecretKeyRequired
    ELSE Nil

\* Config.Validate of the kind with a Disabled field
Validate(c) ==
    IF ~c.Disabled
    THEN IF c.Endpoint = Empty THEN ErrEndpointRequired
         ELSE IF c.Region = Empty THEN ErrRegionRequired
         ELSE IF c.Bucket = Empty THEN ErrBucketRequired
         ELSE IF c.AccessKey = Empty THEN ErrAccessKeyRequired
         ELSE IF c.SecretKey = Empty THEN ErrSecretKeyRequired
         ELSE Nil
    ELSE Nil

\* Config.GenerateOptions of either kind
GenerateOptions(kind, c, logName) ==
    IF kind = "disable"
    THEN [LogName |-> logName, Disabled |-> c.Disabled, Secure |-> c.Secure,
          Region |-> c.Region, Endpoint |-> c.Endpoint, Bucket |-> c.Bucket,
          AccessKey |-> c.AccessKey, SecretKey |-> c.SecretKey]
    ELSE [LogName |-> logName, Secure |-> c.Secure,
          Region |-> c.Region, Endpoint |-> c.Endpoint, Bucket |-> c.Bucket,
          AccessKey |-> c.AccessKey, SecretKey |-> c.SecretKey]

StringFields == {"Endpoint", "Region", "Bucket", "AccessKey", "SecretKey"}

BoolFields(kind) == IF kind = "disable" THEN {"Disabled", "Secure"} ELSE {"Secure"}

\* the caller (or the flag parser) calls config.New()
CallConfigNew ==
    /\ cfg' = ConfigNew(cfgKind)
    /\ pristine' = TRUE
    /\ validateResult' = [done |-> FALSE]
    /\ genOptions' = [done |-> FALSE]
    /\ UNCHANGED cfgKind
    /\ UNCHANGED clientVars

\* a flag, a loaded document or the caller overrides a string field
SetStringField ==
    /\ \E f \in StringFields, v \in FieldVals :
          cfg' = [cfg EXCEPT ![f] = v]
    /\ pristine' = FALSE
    /\ validateResult' = [done |-> FALSE]
    /\ genOptions' = [done |-> FALSE]
    /\ UNCHANGED cfgKind
    /\ UNCHANGED clientVars

\* a flag, a loaded document or the caller overrides a boolean field
SetBoolField ==
    /\ \E f \in BoolFields(cfgKind), v \in BOOLEAN :
          cfg' = [cfg EXCEPT ![f] = v]
    /\ pristine' = FALSE
    /\ validateResult' = [done |-> FALSE]
    /\ genOptions' = [done |-> FALSE]
    /\ UNCHANGED cfgKind
    /\ UNCHANGED clientVars

\* the caller calls cfg.Validate()
CallValidate ==
    /\ validateResult' =
          [done |-> TRUE, cfg |-> cfg, pristine |-> pristine,
           err |-> IF cfgKind = "disable" THEN Validate(cfg) ELSE ValidatePlain(cfg)]
    /\ UNCHANGED <<cfgKind, cfg, pristine, genOptions>>
    /\ UNCHANGED clientVars

\* the caller calls cfg.GenerateOptions(logName)
CallGenerateOptions ==
    /\ \E ln \in LogNames : genOptions' = [done |-> TRUE, opts |-> GenerateOptions(cfgKind, cfg, ln)]
    /\ UNCHANGED <<cfgKind, cfg, pristine, validateResult>>
    /\ UNCHANGED clientVars

-----------------------------------------------------------------------------
(* the storage client: values *)

MaxNameLen == 1

MaxCloses == 2

Chars == {"a", "/"}

RECURSIVE StrsOfLen(_)
StrsOfLen(n) ==
    IF n = 0 THEN {Empty}
    ELSE {s \o <<c>> : s \in StrsOfLen(n - 1), c \in Chars}

\* the strings a caller passes as prefix, key, bucket or subprefix
Names == UNION {StrsOfLen(n) : n \in 0..MaxNameLen}

Variants == {"S3", "BucketClient", "PrefixClient"}

\* s3.go:33-35
ErrDisabled == "s3 is disabled"

ErrCreateClient == "failed to create s3 client: %w"

\* the outcomes of a backend call
ErrNotFound == "NoSuchKey"

ErrAccessDenied == "AccessDenied"

ErrTransport == "transport"

ErrCanceled == "context canceled"

Outcomes == {Nil, ErrNotFound, ErrAccessDenied, ErrTransport, ErrCanceled}

ObjectOps == {"PresignedGetObject", "GetObject", "PutObject", "DeleteObject"}

BucketOps == {"MakeBucket", "RemoveBucket"}

Ops == ObjectOps \cup BucketOps \cup {"ListObjects"}

Endpoints == {Empty, <<"x">>}

Credentials == {Empty, <<"x">>}

\* the Options values a caller may hand to the constructor of each variant
OptionsOf(v) ==
    IF v = "S3"
    THEN [LogName : LogNames, Disabled : BOOLEAN, Endpoint : Endpoints,
          Secure : BOOLEAN, Region : {DefaultRegion}, Bucket : Names,
          AccessKey : Credentials, SecretKey : {<<"x">>}]
    ELSE IF v = "BucketClient"
    THEN [LogName : LogNames, Endpoint : Endpoints,
          Secure : BOOLEAN, Region : {DefaultRegion}, Bucket : Names,
          AccessKey : Credentials, SecretKey : {<<"x">>}]
    ELSE [LogName : LogNames, Endpoint : Endpoints,
          Secure : BOOLEAN, Region : {DefaultRegion}, Prefix : Names,
          AccessKey : Credentials, SecretKey : {<<"x">>}]

IdleCall == [st |-> "idle"]

\* no Options yet: the constructor has not been called
NoOptions == [unset |-> TRUE]

-----------------------------------------------------------------------------
(* the storage client: addressing *)

\* s3.go prefixedKey: fmt.Sprintf("%s/%s", prefix, key)
prefixedKey(prefix, key) == prefix \o <<"/">> \o key

\* the successor's own copy of prefixedKey
prefixedKeyClient(prefix, key) == prefix \o <<"/">> \o key

\* a wrapper that joins prefix and key without the separator
S3Backend_NoSeparator(opts, op, a, b) ==
    IF op \in ObjectOps
    THEN [method |-> op, bucket |-> opts.Bucket, object |-> a \o b]
    ELSE IF op = "ListObjects"
    THEN [method |-> op, bucket |-> opts.Bucket, object |-> a]
    ELSE [method |-> op, bucket |-> a]

\* the backend call each operation of s3.go issues for its arguments (a, b):
\* (prefix, key) for the object operations, (prefix) for ListObjects,
\* (bucket) for MakeBucket and RemoveBucket
S3Backend(opts, op, a, b) ==
    IF op \in ObjectOps
    THEN [method |-> op, bucket |-> opts.Bucket, object |-> prefixedKey(a, b)]
    ELSE IF op = "ListObjects"
    THEN [method |-> op, bucket |-> opts.Bucket, object |-> prefixedKey(a, Empty)]
    ELSE [method |-> op, bucket |-> a]

\* the same for the bucket-fixed successor
BucketClientBackend(opts, op, a, b) ==
    IF op \in ObjectOps
    THEN [method |-> op, bucket |-> opts.Bucket, object |-> prefixedKeyClient(a, b)]
    ELSE IF op = "ListObjects"
    THEN [method |-> op, bucket |-> opts.Bucket, object |-> prefixedKeyClient(a, Empty)]
    ELSE [method |-> op, bucket |-> a]

\* a wrapper that forgets the prefix on the bucket operations
PrefixClientBackend_RawBucketOps(opts, op, a, b) ==
    IF op \in ObjectOps \cup {"ListObjects"}
    THEN [method |-> op, bucket |-> opts.Prefix \o a, object |-> b]
    ELSE [method |-> op, bucket |-> a]

\* the backend call each operation of the prefix-as-namespace client issues
\* for its arguments: (bucket, key), (bucket, subprefix) or (bucket)
PrefixClientBackend(opts, op, a, b) ==
    IF op \in ObjectOps \cup {"ListObjects"}
    THEN [method |-> op, bucket |-> opts.Prefix \o a, object |-> b]
    ELSE [method |-> op, bucket |-> opts.Prefix \o a]

Backend(v, opts, op, a, b) ==
    IF v = "S3" THEN S3Backend(opts, op, a, b)
    ELSE IF v = "BucketClient" THEN BucketClientBackend(opts, op, a, b)
    ELSE PrefixClientBackend(opts, op, a, b)

\* the second argument an operation takes, if it takes one (an operation
\* without one carries the empty string in its place)
SecondArgs(v, op) ==
    IF op \in ObjectOps THEN Names
    ELSE IF op = "ListObjects" /\ v = "PrefixClient" THEN Names
    ELSE {Empty}

Constructed == newResult.returned /\ newResult.client # Nil

-----------------------------------------------------------------------------
(* the storage client: construction *)

\* a constructor that builds the backend session before looking at Disabled
New_DisabledAfterSession ==
    /\ ~newResult.returned
    /\ \E opts \in OptionsOf(variant), sessionErr \in BOOLEAN :
          /\ options' = opts
          /\ minioNewCalls' = minioNewCalls + 1
          /\ IF sessionErr
             THEN /\ newResult' = [returned |-> TRUE, client |-> Nil, err |-> ErrCreateClient]
                  /\ UNCHANGED ctxCreated
             ELSE IF variant = "S3" /\ opts.Disabled
             THEN /\ newResult' = [returned |-> TRUE, client |-> Nil, err |-> ErrDisabled]
                  /\ UNCHANGED ctxCreated
             ELSE /\ newResult' = [returned |-> TRUE, client |-> variant, err |-> Nil]
                  /\ ctxCreated' = ctxCreated + 1
    /\ UNCHANGED <<variant, cancelled, wg, closePc, closeTrace, closeResult,
                   closeCount, call>>
    /\ UNCHANGED cfgVars

\* New(options, logger) of the three variants; only s3.go has the Disabled
\* short-circuit.  minio.New is the backend library: it may fail or succeed.
New ==
    /\ ~newResult.returned
    /\ \E opts \in OptionsOf(variant), sessionErr \in BOOLEAN :
          /\ options' = opts
          /\ IF variant = "S3" /\ opts.Disabled
             THEN /\ newResult' = [returned |-> TRUE, client |-> Nil, err |-> ErrDisabled]
                  /\ UNCHANGED <<minioNewCalls, ctxCreated>>
             ELSE /\ minioNewCalls' = minioNewCalls + 1
                  /\ IF sessionErr
                     THEN /\ newResult' = [returned |-> TRUE, client |-> Nil, err |-> ErrCreateClient]
                          /\ UNCHANGED ctxCreated
                     ELSE /\ newResult' = [returned |-> TRUE, client |-> variant, err |-> Nil]
                          /\ ctxCreated' = ctxCreated + 1
    /\ UNCHANGED <<variant, cancelled, wg, closePc, closeTrace, closeResult,
                   closeCount, call>>
    /\ UNCHANGED cfgVars

-----------------------------------------------------------------------------
(* the storage client: operations *)

\* an operation that registers itself with the wait group and never
\* deregisters
Invoke_RegistersWork(op) ==
    /\ Constructed
    /\ call.st = "idle"
    /\ \E a \in Names, b \in SecondArgs(variant, op) :
          call' = [st |-> "inflight", op |-> op, a |-> a, b |-> b,
                   backend |-> Backend(variant, options, op, a, b),
                   calls |-> 1, ctxDone |-> FALSE, closeSeen |-> FALSE,
                   outcome |-> None, result |-> None]
    /\ wg' = 1
    /\ UNCHANGED <<variant, options, newResult, minioNewCalls, ctxCreated,
                   cancelled, closePc, closeTrace, closeResult, closeCount>>
    /\ UNCHANGED cfgVars

\* an operation is invoked with a context of the caller's own: the wrapper
\* computes the backend address and issues the backend call with that context
Invoke(op) ==
    /\ Constructed
    /\ call.st = "idle"
    /\ \E a \in Names, b \in SecondArgs(variant, op) :
          call' = [st |-> "inflight", op |-> op, a |-> a, b |-> b,
                   backend |-> Backend(variant, options, op, a, b),
                   calls |-> 1, ctxDone |-> FALSE, closeSeen |-> FALSE,
                   outcome |-> None, result |-> None]
    /\ UNCHANGED <<variant, options, newResult, minioNewCalls, ctxCreated,
                   cancelled, wg, closePc, closeTrace, closeResult, closeCount>>
    /\ UNCHANGED cfgVars

\* the caller cancels the context it passed to the operation in flight
CallerCancel ==
    /\ call.st = "inflight"
    /\ ~call.ctxDone
    /\ call' = [call EXCEPT !.ctxDone = TRUE]
    /\ UNCHANGED <<variant, options, newResult, minioNewCalls, ctxCreated,
                   cancelled, wg, closePc, closeTrace, closeResult, closeCount>>
    /\ UNCHANGED cfgVars

\* the outcomes the backend call can have: it reports cancellation only when
\* the context it was given is done
BackendOutcomes(c) ==
    IF c.ctxDone THEN Outcomes ELSE Outcomes \ {ErrCanceled}

\* a wrapper that turns a missing object into success
Return_SwallowNotFound ==
    /\ call.st = "inflight"
    /\ \E out \in BackendOutcomes(call) :
          call' = [call EXCEPT !.st = "returned", !.outcome = out,
                               !.result = IF out = ErrNotFound THEN Nil ELSE out]
    /\ UNCHANGED <<variant, options, newResult, minioNewCalls, ctxCreated,
                   cancelled, wg, closePc, closeTrace, closeResult, closeCount>>
    /\ UNCHANGED cfgVars

\* the backend call completes and the wrapper returns its outcome
\* (return e.client.X(ctx, ...))
Return ==
    /\ call.st = "inflight"
    /\ \E out \in BackendOutcomes(call) :
          call' = [call EXCEPT !.st = "returned", !.outcome = out,
                               !.result = out]
    /\ UNCHANGED <<variant, options, newResult, minioNewCalls, ctxCreated,
                   cancelled, wg, closePc, closeTrace, closeResult, closeCount>>
    /\ UNCHANGED cfgVars

\* the caller has consumed what the operation returned and is free to invoke
\* the next one
Consume ==
    /\ call.st = "returned"
    /\ call' = IdleCall
    /\ UNCHANGED <<variant, options, newResult, minioNewCalls, ctxCreated,
                   cancelled, wg, closePc, closeTrace, closeResult, closeCount>>
    /\ UNCHANGED cfgVars

-----------------------------------------------------------------------------
(* the storage client: Close *)

\* Close is entered (the debug log line)
CloseCall ==
    /\ Constructed
    /\ closePc = "idle"
    /\ closeCount < MaxCloses
    /\ closePc' = "cancel"
    /\ closeTrace' = <<>>
    /\ closeResult' = None
    /\ UNCHANGED <<variant, options, newResult, minioNewCalls, ctxCreated,
                   cancelled, wg, closeCount, call>>
    /\ UNCHANGED cfgVars

\* a Close that forgets e.cancel()
CloseCancel_NoCancel ==
    /\ closePc = "cancel"
    /\ closePc' = "wait"
    /\ closeTrace' = closeTrace
    /\ call' = call
    /\ UNCHANGED <<variant, options, newResult, minioNewCalls, ctxCreated,
                   cancelled, wg, closeResult, closeCount>>
    /\ UNCHANGED cfgVars

\* e.cancel(): the lifecycle context is cancelled.  No operation holds the
\* lifecycle context (each runs on the context its caller passed), so the
\* operation in flight only learns that a Close happened meanwhile.
CloseCancel ==
    /\ closePc = "cancel"
    /\ cancelled' = TRUE
    /\ closePc' = "wait"
    /\ closeTrace' = Append(closeTrace, "cancel")
    /\ call' = IF call.st = "inflight"
               THEN [call EXCEPT !.closeSeen = TRUE]
               ELSE call
    /\ UNCHANGED <<variant, options, newResult, minioNewCalls, ctxCreated,
                   wg, closeResult, closeCount>>
    /\ UNCHANGED cfgVars

\* the deferred e.wg.Wait(): blocks until the counter is zero
CloseWait ==
    /\ closePc = "wait"
    /\ wg = 0
    /\ closePc' = "return"
    /\ closeTrace' = Append(closeTrace, "wait")
    /\ UNCHANGED <<variant, options, newResult, minioNewCalls, ctxCreated,
                   cancelled, wg, closeResult, closeCount, call>>
    /\ UNCHANGED cfgVars

\* a Close that re-arms the lifecycle context on its way out
CloseReturn_Rearm ==
    /\ closePc = "return"
    /\ closePc' = "idle"
    /\ closeTrace' = Append(closeTrace, "return")
    /\ closeResult' = Nil
    /\ closeCount' = closeCount + 1
    /\ cancelled' = FALSE
    /\ UNCHANGED <<variant, options, newResult, minioNewCalls, ctxCreated,
                   wg, call>>
    /\ UNCHANGED cfgVars

\* Close returns nil to its caller
CloseReturn ==
    /\ closePc = "return"
    /\ closePc' = "idle"
    /\ closeTrace' = Append(closeTrace, "return")
    /\ closeResult' = Nil
    /\ closeCount' = closeCount + 1
    /\ UNCHANGED <<variant, options, newResult, minioNewCalls, ctxCreated,
                   cancelled, wg, call>>
    /\ UNCHANGED cfgVars

-----------------------------------------------------------------------------
(* specifications *)

ConfigIdle ==
    /\ cfgKind = "disable"
    /\ cfg = ZeroConfig("disable")
    /\ pristine = FALSE
    /\ validateResult = [done |-> FALSE]
    /\ genOptions = [done |-> FALSE]

ClientStart ==
    /\ options = NoOptions
    /\ newResult = [returned |-> FALSE]
    /\ minioNewCalls = 0
    /\ ctxCreated = 0
    /\ cancelled = FALSE
    /\ wg = 0
    /\ closePc = "idle"
    /\ closeTrace = <<>>
    /\ closeResult = None
    /\ closeCount = 0
    /\ call = IdleCall

\* the client: a constructor call, then operations and Close calls
Init ==
    /\ ConfigIdle
    /\ variant \in Variants
    /\ ClientStart

Next ==
    \/ New
    \/ \E op \in Ops : Invoke(op)
    \/ CallerCancel
    \/ Return
    \/ Consume
    \/ CloseCall
    \/ CloseCancel
    \/ CloseWait
    \/ CloseReturn

Spec == Init /\ [][Next]_vars

\* the goroutine that entered Close keeps being scheduled: each of its steps
\* is taken once it stays enabled.  Callers are under no obligation.
CloseFairness ==
    /\ WF_vars(CloseCancel)
    /\ WF_vars(CloseWait)
    /\ WF_vars(CloseReturn)

\* the Config that GenerateOptions would have produced these Options from
\* (the prefix client keeps its namespace root in Prefix)
OptionsAsConfig(opts) ==
    [Disabled |-> IF "Disabled" \in DOMAIN opts THEN opts.Disabled ELSE FALSE,
     Endpoint |-> opts.Endpoint, Secure |-> opts.Secure, Region |-> opts.Region,
     Bucket |-> IF "Bucket" \in DOMAIN opts THEN opts.Bucket ELSE opts.Prefix,
     AccessKey |-> opts.AccessKey, SecretKey |-> opts.SecretKey]

\* the constructor called with Options projected from a Config that passed
\* Validate, as in the documented control flow
NewFromValidConfig ==
    /\ New
    /\ Validate(OptionsAsConfig(options')) = Nil

FairNext ==
    \/ NewFromValidConfig
    \/ \E op \in Ops : Invoke(op)
    \/ CallerCancel
    \/ Return
    \/ Consume
    \/ CloseCall
    \/ CloseCancel
    \/ CloseWait
    \/ CloseReturn

FairSpec == Init /\ [][FairNext]_vars /\ CloseFairness

\* the configuration: a Config of either kind, built with New() or as the
\* zero value, overridden field by field, validated and projected
ConfigInit ==
    /\ cfgKind \in CfgKinds
    /\ cfg = ZeroConfig(cfgKind)
    /\ pristine = FALSE
    /\ validateResult = [done |-> FALSE]
    /\ genOptions = [done |-> FALSE]
    /\ variant = "S3"
    /\ ClientStart

ConfigNext ==
    \/ CallConfigNew
    \/ SetStringField
    \/ SetBoolField
    \/ CallValidate
    \/ CallGenerateOptions

ConfigSpec == ConfigInit /\ [][ConfigNext]_vars

-----------------------------------------------------------------------------
(* properties of the configuration, checked under ConfigSpec *)

HasDisabled(c) == "Disabled" \in DOMAIN c

IsDisabled(c) == HasDisabled(c) /\ c.Disabled

RequiredOf(c) == <<c.Endpoint, c.Region, c.Bucket, c.AccessKey, c.SecretKey>>

RequiredErrs == <<ErrEndpointRequired, ErrRegionRequired, ErrBucketRequired,
                  ErrAccessKeyRequired, ErrSecretKeyRequired>>

MissingOf(c) == {i \in 1..5 : RequiredOf(c)[i] = Empty}

FirstOf(S) == CHOOSE i \in S : \A j \in S : i <= j

\* C1: a Config that is not disabled validates to the error of the first
\* empty field in the order endpoint, region, bucket, access key, secret key,
\* whatever later fields are empty too, and to nil exactly when none is empty.
C1_FirstMissingField ==
    (validateResult.done /\ ~IsDisabled(validateResult.cfg)) =>
        IF MissingOf(validateResult.cfg) = {}
        THEN validateResult.err = Nil
        ELSE validateResult.err = RequiredErrs[FirstOf(MissingOf(validateResult.cfg))]

C1_Witness ==
    /\ validateResult.done
    /\ ~IsDisabled(validateResult.cfg)
    /\ MissingOf(validateResult.cfg) = {2, 3, 5}
    /\ validateResult.err = ErrRegionRequired

\* C2: a Config with Disabled = TRUE validates to nil whatever its endpoint,
\* region, bucket, access key and secret key are.
C2_DisabledValidates ==
    (validateResult.done /\ IsDisabled(validateResult.cfg)) =>
        validateResult.err = Nil

C2_Witness ==
    /\ validateResult.done
    /\ IsDisabled(validateResult.cfg)
    /\ MissingOf(validateResult.cfg) = {1, 2, 3, 4, 5}
    /\ validateResult.err = Nil

\* C9: the Config returned by New(), validated without any override, has
\* Secure = TRUE, Region = "auto", Disabled = FALSE where present, every other
\* field empty, and fails with ErrEndpointRequired.
C9_DefaultsAreInvalid ==
    (validateResult.done /\ validateResult.pristine) =>
        /\ validateResult.err = ErrEndpointRequired
        /\ validateResult.cfg.Secure = TRUE
        /\ validateResult.cfg.Region = <<"a", "u", "t", "o">>
        /\ MissingOf(validateResult.cfg) = {1, 3, 4, 5}
        /\ ~IsDisabled(validateResult.cfg)

C9_Witness ==
    /\ validateResult.done
    /\ validateResult.pristine
    /\ validateResult.err = ErrEndpointRequired

-----------------------------------------------------------------------------
(* properties of the storage client, checked under Spec *)

\* C3: New with options.Disabled = TRUE returns (nil, ErrDisabled) whatever
\* the other option fields are, before any backend session is constructed:
\* no backend client, no lifecycle context, no client value, and never the
\* wrapped construction error.
C3_DisabledShortCircuit ==
    (newResult.returned /\ variant = "S3" /\ options.Disabled) =>
        /\ newResult.client = Nil
        /\ newResult.err = ErrDisabled
        /\ newResult.err # ErrCreateClient
        /\ minioNewCalls = 0
        /\ ctxCreated = 0
        /\ ~Constructed

C3_Witness ==
    /\ newResult.returned
    /\ variant = "S3"
    /\ options.Disabled
    /\ options.Endpoint = Empty
    /\ newResult.err = ErrDisabled

\* C4: an operation that is in flight when Close cancels the lifecycle
\* context observes cancellation of its context and returns a
\* cancellation-kind error.
C4_CloseCancelsInFlight ==
    (call.st \in {"inflight", "returned"} /\ call.closeSeen) =>
        /\ call.ctxDone
        /\ call.st = "returned" => call.result = ErrCanceled

\* C5: Close first cancels the lifecycle context, then waits for the wait
\* group to be at zero, and only then returns nil: it never waits before the
\* cancellation is signalled and never returns with work pending.
C5_CloseOrder ==
    /\ closePc = "wait" => (cancelled /\ closeTrace = <<"cancel">>)
    /\ closePc = "return" =>
          (cancelled /\ wg = 0 /\ closeTrace = <<"cancel", "wait">>)
    /\ closeResult # None =>
          /\ closeResult = Nil
          /\ cancelled
          /\ wg = 0
          /\ closeTrace = <<"cancel", "wait", "return">>

C5_Witness ==
    /\ closeResult = Nil
    /\ closeCount = 1
    /\ cancelled
    /\ closeTrace = <<"cancel", "wait", "return">>

\* s is p, then "/", then k
IsJoined(s, p, k) ==
    /\ Len(s) = Len(p) + 1 + Len(k)
    /\ \A i \in 1..Len(p) : s[i] = p[i]
    /\ s[Len(p) + 1] = "/"
    /\ \A i \in 1..Len(k) : s[Len(p) + 1 + i] = k[i]

\* s is p directly followed by q
IsConcat(s, p, q) ==
    /\ Len(s) = Len(p) + Len(q)
    /\ \A i \in 1..Len(p) : s[i] = p[i]
    /\ \A i \in 1..Len(q) : s[Len(p) + i] = q[i]

Called == call.st \in {"inflight", "returned"}

\* C6: in the bucket-fixed variants every object operation addresses the
\* bucket bound at construction with the object key prefix + "/" + key, also
\* for an empty prefix or key, and ListObjects lists that bucket with the
\* filter prefix + "/".
C6_BucketFixedAddressing ==
    (Called /\ variant \in {"S3", "BucketClient"}) =>
        /\ call.op \in ObjectOps =>
              /\ call.backend.bucket = options.Bucket
              /\ call.backend.method = call.op
              /\ IsJoined(call.backend.object, call.a, call.b)
        /\ call.op = "ListObjects" =>
              /\ call.backend.bucket = options.Bucket
              /\ IsJoined(call.backend.object, call.a, Empty)

C6_Witness ==
    /\ call.st = "returned"
    /\ variant \in {"S3", "BucketClient"}
    /\ call.op \in ObjectOps
    /\ call.a = Empty
    /\ call.b = <<"a">>
    /\ call.backend.object = <<"/", "a">>
    /\ call.backend.bucket = options.Bucket

\* C7: in the prefix-as-namespace variant every operation addresses the
\* backend bucket options.Prefix directly followed by the caller's bucket and
\* passes the key, or the listing subprefix, unmodified.
C7_PrefixNamespaceAddressing ==
    (Called /\ variant = "PrefixClient") =>
        /\ IsConcat(call.backend.bucket, options.Prefix, call.a)
        /\ call.backend.method = call.op
        /\ call.op \in ObjectOps \cup {"ListObjects"} =>
              call.backend.object = call.b

C7_Witness ==
    /\ call.st = "returned"
    /\ variant = "PrefixClient"
    /\ call.op = "RemoveBucket"
    /\ options.Prefix = <<"a">>
    /\ call.a = <<"/">>
    /\ call.backend.bucket = <<"a", "/">>

\* C8: every operation makes exactly one backend call and returns that
\* call's outcome unchanged: an error is the very same error, never
\* swallowed, replaced or retried.
C8_OutcomeUnchanged ==
    call.st = "returned" =>
        /\ call.calls = 1
        /\ call.result = call.outcome

C8_Witness ==
    /\ call.st = "returned"
    /\ call.outcome = ErrNotFound
    /\ call.result = ErrNotFound
    /\ call.calls = 1

\* the lifecycle state of the client, read off its fields
Lifecycle ==
    IF ~Constructed THEN 0                 \* no client
    ELSE IF ~cancelled THEN 1              \* Active
    ELSE IF closeCount = 0 THEN 2          \* Closing
    ELSE 3                                 \* Closed

\* C10: the lifecycle only moves forward: once Close has cancelled the
\* lifecycle context it stays cancelled under every later operation and
\* Close call, and the client never returns to Active.
C10_NoWayBack ==
    [][(cancelled => cancelled') /\ Lifecycle' >= Lifecycle]_vars

C10_Witness ==
    /\ cancelled
    /\ closeCount = 2
    /\ call.st = "returned"
    /\ ~call.closeSeen

-----------------------------------------------------------------------------
(* termination of Close, checked under FairSpec *)

=============================================================================
